---- MODULE Spec2Model ----
(***************************************************************************)
(* A model of neuromancer's simulators (src/neuromancer/simulators.py)     *)
(* and of its structured linear maps (src/linear.py).                      *)
(*                                                                         *)
(* Python dictionaries are functions whose DOMAIN is the key set, Python   *)
(* lists and the leading (time) axis of a tensor are sequences; a Python   *)
(* index i (0-based) is position i+1 of the sequence.  The estimator, the  *)
(* policy and the emulator are callables the simulator does not define:    *)
(* what one of them returns for a key at loop index k is the token         *)
(* Val(component, key, k, t), t being the position along the time axis.    *)
(***************************************************************************)
EXTENDS Integers, Sequences, FiniteSets, TLC

\* ------------------------------------------------------------------ bounds
MaxN == 3        \* largest policy.nsteps / estimator.window_size explored
MaxSim == 4      \* largest nsim explored
DataLen == 6     \* number of time rows of every series of sim_data

\* ----------------------------------------------------------------- helpers
Max(a, b) == IF a >= b THEN a ELSE b
Min(a, b) == IF a <= b THEN a ELSE b
Range(s) == {s[i] : i \in DOMAIN s}

\* A tensor row, or a component's output at one time position.
Val(src, key, k, t) == [src |-> src, key |-> key, k |-> k, t |-> t]

\* The empty dict {}.
EmptyDict == [key \in {} |-> <<>>]

\* {**a, **b}: b's entries override a's.
Merge(a, b) ==
  [key \in (DOMAIN a) \cup (DOMAIN b) |-> IF key \in DOMAIN b THEN b[key] ELSE a[key]]

\* s[a:b] along the leading axis, with Python's treatment of negative and
\* out-of-range bounds.
PySlice(s, a, b) ==
  LET n == Len(s)
      lo == IF a < 0 THEN Max(a + n, 0) ELSE Min(a, n)
      hi == IF b < 0 THEN Max(b + n, 0) ELSE Min(b, n)
  IN  SubSeq(s, lo + 1, hi)

\* list.remove(x): the list without the first occurrence of x (x occurs).
FirstIndex(s, x) == CHOOSE i \in DOMAIN s : s[i] = x /\ \A j \in 1..(i - 1) : s[j] # x
ListRemove(s, x) ==
  LET i == FirstIndex(s, x) IN SubSeq(s, 1, i - 1) \o SubSeq(s, i + 1, Len(s))

\* torch.cat of a list of tensors along the leading axis.
RECURSIVE TorchCat(_)
TorchCat(list) == IF list = <<>> THEN <<>> ELSE Head(list) \o TorchCat(Tail(list))

\* --------------------------------------------------------------- variables
VARIABLES
  sim_data,       \* ClosedLoopSimulator.sim_data: key -> series of rows
  policy,         \* ClosedLoopSimulator.policy: input_keys, output_keys, nsteps
  emulator,       \* ClosedLoopSimulator.emulator: input_keys, output_keys
  estimator,      \* ClosedLoopSimulator.estimator, or None
  pc,             \* where simulate() is
  nsim,           \* simulate's argument
  cl_keys,        \* simulate's local cl_keys
  cl_data,        \* simulate's local cl_data
  start_k,        \* simulate's local start_k
  k,              \* the loop index
  estim_out,      \* simulate's local estim_out
  policy_raw,     \* what self.policy(step_data) returned, before rhc
  policy_out,     \* simulate's local policy_out (after rhc)
  emulator_out,   \* simulate's local emulator_out
  step_in,        \* the step_data handed to each component in this iteration
  cl_step_data,   \* simulate's local cl_step_data
  visited,        \* the loop indices the for statement has taken, in order
  first_call      \* the simulator before its first simulate() and what that call gave

simVars == <<sim_data, policy, emulator, estimator, pc, nsim, cl_keys, cl_data,
             start_k, k, estim_out, policy_raw, policy_out, emulator_out,
             step_in, cl_step_data, visited, first_call>>

VARIABLES
  outputs,        \* MultiSequenceOpenLoopSimulator.agg's argument
  stack,          \* MultiSequenceOpenLoopSimulator.stack
  agg_outputs,    \* agg's local agg_outputs, which it returns
  agg_pc          \* where agg() is

aggVars == <<outputs, stack, agg_outputs, agg_pc>>

VARIABLES
  spectral,       \* a SpectralLinear: insize, outsize, r, sigma_mean, p
  sigma_range,    \* the sigma_min and sigma_max it was constructed with
  perron,         \* a PerronFrobeniusLinear: weight, scaling, sigma_min, sigma_max
  lin_ret,        \* what the method called on the map returned
  lin_pc          \* which method has returned

linVars == <<spectral, sigma_range, perron, lin_ret, lin_pc>>

VARIABLES
  lmap,           \* the map a class of linear.py is asked to construct
  hmethod,        \* the method of the SpectralLinear that was called
  harg,           \* its argument x
  hx,             \* the local x of Umultiply, Vmultiply and forward
  hi,             \* the position the for statement has reached in its range
  refl,           \* the Hprod calls made so far, in order
  effW            \* what the last effective_W() of the SpectralLinear returned

callVars == <<lmap, hmethod, harg, hx, hi, refl, effW>>

vars == <<simVars, aggVars, linVars, callVars>>

\* What a step of one component leaves alone: the other components.
SimOnly == UNCHANGED <<aggVars, linVars, callVars>>
AggOnly == UNCHANGED <<simVars, linVars, callVars>>
LinOnly == UNCHANGED <<simVars, aggVars, callVars>>
MapOnly == UNCHANGED <<simVars, aggVars>>

\* ------------------------------------------------- ClosedLoopSimulator
None == [isNone |-> TRUE, input_keys |-> <<>>, output_keys |-> <<>>, window_size |-> 0]

RegKeys == {"reg_error_dynamics", "reg_error_policy", "reg_error_estim"}

\* The series the simulator is constructed with.
SimDataKeys == {"y", "x", "u", "d"}
SimData == [key \in SimDataKeys |-> [i \in 1..DataLen |-> Val("sim_data", key, i - 1, 0)]]

\* The output_keys lists explored: a component's own outputs, followed by
\* regularization-error keys (none, its own, or its own and another's).
EstimatorOutputKeys ==
  { <<"x", "reg_error_estim">>, <<"x">>, <<"x", "u", "reg_error_estim">>,
    <<"x", "reg_error_estim", "reg_error_policy">> }
PolicyOutputKeys ==
  { <<"u", "reg_error_policy">>, <<"u">>, <<"u", "x", "reg_error_policy">>,
    <<"u", "reg_error_policy", "reg_error_dynamics">> }
EmulatorOutputKeys ==
  { <<"y", "reg_error_dynamics">>, <<"y">>, <<"y", "u", "reg_error_dynamics">>,
    <<"y", "x", "reg_error_dynamics", "reg_error_estim">> }

\* The input_keys lists; "r" is a key sim_data does not have.
EstimatorInputKeys == <<"y", "r">>
PolicyInputKeys == <<"x", "d", "r">>
EmulatorInputKeys == <<"x", "u", "d", "r">>

Estimators ==
  {None} \cup
  { [isNone |-> FALSE, input_keys |-> EstimatorInputKeys, output_keys |-> ok, window_size |-> w] :
      ok \in EstimatorOutputKeys, w \in 1..MaxN }
Policies ==
  { [input_keys |-> PolicyInputKeys, output_keys |-> ok, nsteps |-> n] :
      ok \in PolicyOutputKeys, n \in 1..MaxN }
Emulators ==
  { [input_keys |-> EmulatorInputKeys, output_keys |-> ok] : ok \in EmulatorOutputKeys }

\* The locals of simulate() before a call and after it has returned or raised.
NoLocals ==
  /\ nsim = 0
  /\ cl_keys = <<>>
  /\ cl_data = EmptyDict
  /\ start_k = 0
  /\ k = 0
  /\ estim_out = EmptyDict
  /\ policy_raw = EmptyDict
  /\ policy_out = EmptyDict
  /\ emulator_out = EmptyDict
  /\ step_in = [estimator |-> EmptyDict, policy |-> EmptyDict, emulator |-> EmptyDict]
  /\ cl_step_data = EmptyDict
  /\ visited = <<>>

\* simulate() has not been called yet.
NoCall == [called |-> FALSE, returned |-> FALSE, nsim |-> 0, before |-> <<>>,
           outcome |-> "", lens |-> EmptyDict]

\* The simulator's own state: sim_data and the three output_keys lists.
Own == [sim_data |-> sim_data, estimator |-> estimator.output_keys,
        policy |-> policy.output_keys, emulator |-> emulator.output_keys]

\* ClosedLoopSimulator.__init__
InitSim ==
  /\ sim_data = SimData
  /\ policy \in Policies
  /\ emulator \in Emulators
  /\ estimator \in Estimators
  /\ pc = "idle"
  /\ NoLocals
  /\ first_call = NoCall

\* No closed-loop simulator is in play.
SimParked ==
  /\ sim_data = EmptyDict
  /\ policy = [input_keys |-> <<>>, output_keys |-> <<>>, nsteps |-> 0]
  /\ emulator = [input_keys |-> <<>>, output_keys |-> <<>>]
  /\ estimator = None
  /\ pc = "parked"
  /\ NoLocals
  /\ first_call = NoCall

\* What the three callables return: one entry per declared output key.  The
\* policy returns nsteps time steps per key, the others one.
EstimatorCall(kk) ==
  [key \in Range(estimator.output_keys) |-> <<Val("estimator", key, kk, 0)>>]
PolicyCall(kk) ==
  [key \in Range(policy.output_keys) |->
     [t \in 1..policy.nsteps |-> Val("policy", key, kk, t - 1)]]
EmulatorCall(kk) ==
  [key \in Range(emulator.output_keys) |-> <<Val("emulator", key, kk, 0)>>]

step_data_policy(data, kk) ==
  [key \in Range(policy.input_keys) \cap DOMAIN data |->
     PySlice(data[key], kk - policy.nsteps, kk)]

step_data_estimator(data, kk) ==
  [key \in Range(estimator.input_keys) \cap DOMAIN data |->
     PySlice(data[key], kk - policy.nsteps, kk)]

\* data[key][k, :, :] raises IndexError when k is past the last row.
step_data_emulator_raises(data, kk) ==
  \E key \in Range(emulator.input_keys) \cap DOMAIN data : kk >= Len(data[key])
step_data_emulator(data, kk) ==
  [key \in Range(emulator.input_keys) \cap DOMAIN data |-> data[key][kk + 1]]

rhc_keep_horizon(pout) == pout
rhc(pout) ==
  LET key == policy.output_keys[1]
  IN  [pout EXCEPT ![key] = PySlice(pout[key], 0, 1)]

append_data_raises(data, step_data) == \E key \in DOMAIN data : key \notin DOMAIN step_data
append_data_first_key_only(data, step_data) ==
  [key \in DOMAIN data |->
     IF key = cl_keys[1] THEN Append(data[key], step_data[key]) ELSE data[key]]
append_data(data, step_data) ==
  [key \in DOMAIN data |-> Append(data[key], step_data[key])]

\* lines 311-313: the offset of the largest moving horizon window.
StartK_min ==
  IF policy.nsteps >= estimator.window_size THEN estimator.window_size ELSE policy.nsteps
StartK ==
  IF policy.nsteps >= estimator.window_size THEN policy.nsteps ELSE estimator.window_size

\* line 328: {**step_data, **estim_out, **policy_out}
emulator_step_data(raw, eout, pout) == Merge(Merge(raw, eout), pout)

\* line 331: {**estim_out, **policy_out, **emulator_out}
closed_loop_step_emulator_first(eout, pout, mout) == Merge(Merge(mout, pout), eout)
closed_loop_step(eout, pout, mout) == Merge(Merge(eout, pout), mout)

\* line 303: a + b + c is a new list, so the remove() calls of lines 304-307
\* work on the new list and a component's own output_keys list keeps every
\* element.
OutputKeysAfterRemove_aliased(keys) == SelectSeq(keys, LAMBDA key : key \notin RegKeys)
OutputKeysAfterRemove(keys) == keys

\* line 314: kk \in range(s, s + n)
RangeHas(s, n, kk) == s <= kk /\ kk < s + n

\* simulate(), lines 301-313: the keys of the output record and start_k.
SimulateBegin ==
  /\ SimOnly
  /\ pc = "idle"
  /\ \E n \in 0..MaxSim :
       /\ nsim' = n
       /\ IF estimator = None
          THEN \* line 303: None has no output_keys
               /\ pc' = "AttributeError"
               /\ UNCHANGED <<cl_keys, cl_data, start_k, k>>
          ELSE LET all == estimator.output_keys \o policy.output_keys \o emulator.output_keys
               IN  IF "reg_error_dynamics" \notin Range(all)
                   THEN /\ pc' = "ValueError"
                        /\ cl_keys' = all
                        /\ UNCHANGED <<cl_data, start_k, k>>
                   ELSE LET r1 == ListRemove(all, "reg_error_dynamics")
                        IN  IF "reg_error_policy" \notin Range(r1)
                            THEN /\ pc' = "ValueError"
                                 /\ cl_keys' = r1
                                 /\ UNCHANGED <<cl_data, start_k, k>>
                            ELSE LET r2 == ListRemove(r1, "reg_error_policy")
                                 IN  IF "reg_error_estim" \notin Range(r2)
                                     THEN /\ pc' = "ValueError"
                                          /\ cl_keys' = r2
                                          /\ UNCHANGED <<cl_data, start_k, k>>
                                     ELSE LET r3 == ListRemove(r2, "reg_error_estim")
                                              s == StartK
                                          IN  /\ cl_keys' = r3
                                              /\ cl_data' = [key \in Range(r3) |-> <<>>]
                                              /\ start_k' = s
                                              /\ k' = s
                                              /\ pc' = IF RangeHas(s, n, s) THEN "estimator" ELSE "cat"
       /\ first_call' = IF first_call.called THEN first_call
                        ELSE [NoCall EXCEPT !.called = TRUE, !.nsim = n, !.before = Own]
  /\ estimator' = [estimator EXCEPT !.output_keys = OutputKeysAfterRemove(@)]
  /\ policy' = [policy EXCEPT !.output_keys = OutputKeysAfterRemove(@)]
  /\ emulator' = [emulator EXCEPT !.output_keys = OutputKeysAfterRemove(@)]
  /\ UNCHANGED <<sim_data, estim_out, policy_raw, policy_out, emulator_out, step_in,
                 cl_step_data, visited>>

\* lines 314-320: the loop takes index k; the estimator step.
EstimatorStep ==
  /\ SimOnly
  /\ pc = "estimator"
  /\ visited' = Append(visited, k)
  /\ IF estimator # None
     THEN LET step_data == step_data_estimator(sim_data, k)
          IN  /\ step_in' = [estimator |-> step_data, policy |-> EmptyDict,
                             emulator |-> EmptyDict]
              /\ estim_out' = EstimatorCall(k)
     ELSE /\ step_in' = [estimator |-> EmptyDict, policy |-> EmptyDict,
                         emulator |-> EmptyDict]
          /\ estim_out' = EmptyDict
  /\ pc' = "policy"
  /\ UNCHANGED <<sim_data, policy, emulator, estimator, nsim, cl_keys, cl_data,
                 start_k, k, policy_raw, policy_out, emulator_out, cl_step_data,
                 first_call>>

\* lines 321-325: the policy step and receding horizon control.
PolicyStep ==
  /\ SimOnly
  /\ pc = "policy"
  /\ LET step_data == Merge(step_data_policy(sim_data, k), estim_out)
         pout == PolicyCall(k)
     IN  /\ step_in' = [step_in EXCEPT !.policy = step_data]
         /\ policy_raw' = pout
         /\ policy_out' = rhc(pout)
  /\ pc' = "emulator"
  /\ UNCHANGED <<sim_data, policy, emulator, estimator, nsim, cl_keys, cl_data,
                 start_k, k, estim_out, emulator_out, cl_step_data, visited,
                 first_call>>

\* lines 326-333: the emulator step, the merged step record, append_data.
EmulatorStep ==
  /\ SimOnly
  /\ pc = "emulator"
  /\ IF step_data_emulator_raises(sim_data, k)
     THEN /\ pc' = "IndexError"
          /\ UNCHANGED <<cl_data, k, emulator_out, step_in, cl_step_data>>
     ELSE LET step_data == emulator_step_data(step_data_emulator(sim_data, k), estim_out,
                                              policy_out)
              eout == EmulatorCall(k)
              merged == closed_loop_step(estim_out, policy_out, eout)
          IN  /\ step_in' = [step_in EXCEPT !.emulator = step_data]
              /\ emulator_out' = eout
              /\ cl_step_data' = merged
              /\ IF append_data_raises(cl_data, merged)
                 THEN /\ pc' = "KeyError"
                      /\ UNCHANGED <<cl_data, k>>
                 ELSE /\ cl_data' = append_data(cl_data, merged)
                      /\ k' = k + 1
                      /\ pc' = IF RangeHas(start_k, nsim, k + 1) THEN "estimator" ELSE "cat"
  /\ UNCHANGED <<sim_data, policy, emulator, estimator, nsim, cl_keys, start_k,
                 estim_out, policy_raw, policy_out, visited, first_call>>

\* lines 334-337: every per-key list is concatenated; torch.cat raises on an
\* empty list.
SimulateEnd ==
  /\ SimOnly
  /\ pc = "cat"
  /\ IF \E key \in DOMAIN cl_data : cl_data[key] = <<>>
     THEN /\ pc' = "RuntimeError"
          /\ UNCHANGED cl_data
     ELSE /\ cl_data' = [key \in DOMAIN cl_data |-> TorchCat(cl_data[key])]
          /\ pc' = "done"
  /\ UNCHANGED <<sim_data, policy, emulator, estimator, nsim, cl_keys, start_k, k,
                 estim_out, policy_raw, policy_out, emulator_out, step_in,
                 cl_step_data, visited, first_call>>

Raised == {"AttributeError", "ValueError", "IndexError", "KeyError", "RuntimeError"}

\* The length of every sequence of a record of sequences.
Lens(data) == [key \in DOMAIN data |-> Len(data[key])]

\* simulate() has returned or raised: its locals are gone, the simulator stays.
SimulateReturn ==
  /\ SimOnly
  /\ pc \in Raised \cup {"done"}
  /\ pc' = "idle"
  /\ nsim' = 0
  /\ cl_keys' = <<>>
  /\ cl_data' = EmptyDict
  /\ start_k' = 0
  /\ k' = 0
  /\ estim_out' = EmptyDict
  /\ policy_raw' = EmptyDict
  /\ policy_out' = EmptyDict
  /\ emulator_out' = EmptyDict
  /\ step_in' = [estimator |-> EmptyDict, policy |-> EmptyDict, emulator |-> EmptyDict]
  /\ cl_step_data' = EmptyDict
  /\ visited' = <<>>
  /\ first_call' = IF first_call.returned THEN first_call
                    ELSE [first_call EXCEPT !.returned = TRUE, !.outcome = pc,
                                            !.lens = Lens(cl_data)]
  /\ UNCHANGED <<sim_data, policy, emulator, estimator>>

NextSim ==
  \/ SimulateBegin
  \/ EstimatorStep
  \/ PolicyStep
  \/ EmulatorStep
  \/ SimulateEnd
  \/ SimulateReturn

\* ------------------------------------- MultiSequenceOpenLoopSimulator.agg
MaxSeq == 2      \* longest sequence of output dicts explored

\* Exact fractions n/d, d > 0, in lowest terms.
Abs(x) == IF x < 0 THEN -x ELSE x
RECURSIVE GCD(_, _)
GCD(a, b) == IF b = 0 THEN a ELSE GCD(b, a % b)
Rat(n, d) == LET g == GCD(Abs(n), d) IN [n |-> n \div g, d |-> d \div g]
LCM(a, b) == (a \div GCD(a, b)) * b
RAdd(a, b) ==
  LET l == LCM(a.d, b.d) IN Rat(a.n * (l \div a.d) + b.n * (l \div b.d), l)
RSub(a, b) ==
  LET l == LCM(a.d, b.d) IN Rat(a.n * (l \div a.d) - b.n * (l \div b.d), l)
RMul(a, b) ==
  LET g == GCD(Abs(a.n), b.d)
      h == GCD(Abs(b.n), a.d)
  IN  Rat((a.n \div g) * (b.n \div h), (a.d \div h) * (b.d \div g))
RDiv(a, b) ==
  IF b.n > 0 THEN RMul(a, [n |-> b.d, d |-> b.n]) ELSE RMul(a, [n |-> -b.d, d |-> -b.n])
RLe(a, b) ==
  LET l == LCM(a.d, b.d) IN a.n * (l \div a.d) <= b.n * (l \div b.d)

\* A tensor is its shape and its entries in row-major order; a str is a str.
Tensor(shape, data) == [type |-> "Tensor", shape |-> shape, data |-> data]
Str(text) == [type |-> "str", shape |-> <<>>, data |-> <<text>>]

RECURSIVE SumSeq(_)
SumSeq(q) == IF q = <<>> THEN 0 ELSE Head(q) + SumSeq(Tail(q))
RECURSIVE FlatData(_)
FlatData(list) == IF list = <<>> THEN <<>> ELSE Head(list).data \o FlatData(Tail(list))

\* torch.stack: a new leading axis; every tensor must have the same shape.
TensorStackRaises(list) == \E i \in DOMAIN list : list[i].shape # list[1].shape
TensorCat(list) ==
  Tensor(<<SumSeq([i \in DOMAIN list |-> list[i].shape[1]])>> \o Tail(list[1].shape),
         FlatData(list))
TensorStack(list) == Tensor(<<Len(list)>> \o list[1].shape, FlatData(list))

\* torch.cat: along the leading axis; the other axes must agree.
TensorCatRaises(list) ==
  \E i \in DOMAIN list : list[i].shape = <<>> \/ Tail(list[i].shape) # Tail(list[1].shape)

\* torch.mean: the mean of all entries, a 0-dimensional tensor.
TensorMean(t) == Tensor(<<>>, <<Rat(SumSeq(t.data), Len(t.data))>>)

\* The output dicts explored: a loss of fewer than two dimensions, a
\* two-dimensional tensor and, in some dicts, a name.
LossTensors ==
  { Tensor(<<>>, <<1>>), Tensor(<<>>, <<2>>), Tensor(<<>>, <<3>>), Tensor(<<2>>, <<1, 4>>) }
YTensors ==
  { Tensor(<<1, 2>>, <<11, 12>>), Tensor(<<1, 2>>, <<21, 22>>),
    Tensor(<<2, 2>>, <<31, 32, 33, 34>>), Tensor(<<1, 3>>, <<41, 42, 43>>) }
OutputDicts ==
  { [loss |-> l, Y |-> y] : l \in LossTensors, y \in YTensors } \cup
  { [loss |-> l, Y |-> y, name |-> Str("train")] : l \in LossTensors, y \in YTensors }

InitAgg ==
  /\ outputs \in UNION { [1..n -> OutputDicts] : n \in 0..MaxSeq }
  /\ stack \in BOOLEAN
  /\ agg_outputs = EmptyDict
  /\ agg_pc = "idle"

AggParked ==
  /\ outputs = <<>>
  /\ stack = FALSE
  /\ agg_outputs = EmptyDict
  /\ agg_pc = "parked"

\* lines 177-179: the values of one key, in the order of the sequence.
RECURSIVE Collect(_, _)
Collect(outs, key) ==
  IF outs = <<>> THEN <<>>
  ELSE (IF key \in DOMAIN Head(outs) THEN <<Head(outs)[key]>> ELSE <<>>)
       \o Collect(Tail(outs), key)

\* lines 180-188 for one key's list.
AggOneRaises(list) ==
  IF list[1].type = "str" THEN FALSE
  ELSE IF Len(list[1].shape) < 2 THEN TensorStackRaises(list)
  ELSE IF stack THEN TensorStackRaises(list)
  ELSE TensorCatRaises(list)
AggOne_swapped(list) ==
  IF list[1].type = "str" THEN list
  ELSE IF Len(list[1].shape) < 2 THEN TensorMean(TensorStack(list))
  ELSE IF stack THEN TensorCat(list)
  ELSE TensorStack(list)
AggOne(list) ==
  IF list[1].type = "str" THEN list
  ELSE IF Len(list[1].shape) < 2 THEN TensorMean(TensorStack(list))
  ELSE IF stack THEN TensorStack(list)
  ELSE TensorCat(list)

\* MultiSequenceOpenLoopSimulator.agg
Agg ==
  /\ AggOnly
  /\ agg_pc = "idle"
  /\ IF outputs = <<>>
     THEN \* line 174: outputs[0]
          /\ agg_pc' = "IndexError"
          /\ UNCHANGED agg_outputs
     ELSE IF \E d \in DOMAIN outputs : ~(DOMAIN outputs[d] \subseteq DOMAIN outputs[1])
     THEN \* line 179: a key the first dict does not have
          /\ agg_pc' = "KeyError"
          /\ UNCHANGED agg_outputs
     ELSE IF \E key \in DOMAIN outputs[1] : AggOneRaises(Collect(outputs, key))
     THEN /\ agg_pc' = "RuntimeError"
          /\ UNCHANGED agg_outputs
     ELSE /\ agg_outputs' = [key \in DOMAIN outputs[1] |-> AggOne(Collect(outputs, key))]
          /\ agg_pc' = "done"
  /\ UNCHANGED <<outputs, stack>>

NextAgg == Agg
\* ------------------------------------------------------------ linear.py
MaxSize == 3     \* largest insize / outsize of a SpectralLinear explored
MaxLogit == 7    \* largest magnitude of a raw logit explored
MaxOut == 2      \* largest outsize of a PerronFrobeniusLinear explored

Zero == Rat(0, 1)
RECURSIVE RSum(_)
RSum(q) == IF q = <<>> THEN Zero ELSE RAdd(Head(q), RSum(Tail(q)))

\* torch.sigmoid at integer logits, to three decimals; past the table the
\* result is rounded to 0 or to 1.
SigmoidTable == <<731, 881, 953, 982, 993, 998>>
Sigmoid(x) ==
  IF x = 0 THEN Rat(1, 2)
  ELSE IF x > Len(SigmoidTable) THEN Rat(1, 1)
  ELSE IF x < -Len(SigmoidTable) THEN Zero
  ELSE IF x > 0 THEN Rat(SigmoidTable[x], 1000)
  ELSE Rat(1000 - SigmoidTable[-x], 1000)

\* torch.exp at integer arguments <= 0, to three decimals; past the table
\* the result is rounded to 0.
ExpTable == <<368, 135, 50, 18, 7, 2>>
Exp(x) ==
  IF x = 0 THEN Rat(1, 1)
  ELSE IF -x > Len(ExpTable) THEN Zero
  ELSE Rat(ExpTable[-x], 1000)

\* The sigma_min, sigma_max explored, sigma_min <= sigma_max.
SigmaGrid == {Rat(-1, 2), Rat(3, 5), Rat(19, 20), Rat(1, 1)}
SigmaPairs == {pr \in SigmaGrid \X SigmaGrid : RLe(pr[1], pr[2])}
\* The raw logits explored.
Logits == {-MaxLogit, -1, 0, 2, MaxLogit}

NoMap == [insize |-> 0, outsize |-> 0]

\* SpectralLinear.__init__, lines 180-181
InitR(sigma_min, sigma_max) == RDiv(RSub(sigma_max, sigma_min), Rat(2, 1))
InitSigmaMean(sigma_min, r) == RAdd(sigma_min, r)

\* The fields lines 178-186 assign, p being any vector of nsigma logits.
InitSpectral ==
  /\ \E insize \in 1..MaxSize, outsize \in 1..MaxSize, pr \in SigmaPairs :
       /\ sigma_range = [sigma_min |-> pr[1], sigma_max |-> pr[2]]
       /\ \E pv \in [1..Min(insize, outsize) -> Logits] :
            spectral = [insize |-> insize, outsize |-> outsize,
                        r |-> InitR(pr[1], pr[2]),
                        sigma_mean |-> InitSigmaMean(pr[1], InitR(pr[1], pr[2])),
                        p |-> pv]
  /\ perron = NoMap
  /\ lin_ret = <<>>
  /\ lin_pc = "idle"

LinParked ==
  /\ spectral = NoMap
  /\ sigma_range = [sigma_min |-> Zero, sigma_max |-> Zero]
  /\ perron = NoMap
  /\ lin_ret = <<>>
  /\ lin_pc = "parked"

\* line 189
Sigmas_uncentred ==
  [i \in 1..Len(spectral.p) |->
     RAdd(RMul(RMul(Rat(2, 1), spectral.r), Sigmoid(spectral.p[i])), spectral.sigma_mean)]
Sigmas ==
  [i \in 1..Len(spectral.p) |->
     RAdd(RMul(RMul(Rat(2, 1), spectral.r), RSub(Sigmoid(spectral.p[i]), Rat(1, 2))),
          spectral.sigma_mean)]

\* torch.zeros(n), torch.diag(v), m[:a, :b]
TorchZeros(n) == [i \in 1..n |-> Zero]
TorchDiag(v) == [i \in 1..Len(v) |-> [j \in 1..Len(v) |-> IF i = j THEN v[i] ELSE Zero]]
SliceMatrix(m, a, b) ==
  [i \in 1..Min(a, Len(m)) |-> [j \in 1..Min(b, Len(m[i])) |-> m[i][j]]]

\* line 190: the vector that is diagonalized
SigmaPadded_unpadded == Sigmas
SigmaPadded == Sigmas \o TorchZeros(Abs(spectral.insize - spectral.outsize))

\* SpectralLinear.Sigma
Sigma == SliceMatrix(TorchDiag(SigmaPadded), spectral.insize, spectral.outsize)

CallSigma ==
  /\ LinOnly
  /\ lin_pc = "idle"
  /\ spectral # NoMap
  /\ lin_ret' = Sigma
  /\ lin_pc' = "Sigma"
  /\ UNCHANGED <<spectral, sigma_range, perron>>

NextSigma == CallSigma

\* The weights and scalings explored: the entries 'identity' initialization
\* writes and entries of the size 'basic' initialization draws.
WeightGrid == {-1000, 0, 1}
ScalingGrid == {-100, 1}
PerronInsizes == {1, 2}
PerronSigmaPairs ==
  { <<Rat(19, 20), Rat(1, 1)>>, <<Rat(-1, 2), Rat(3, 5)>>, <<Rat(1, 1), Rat(1, 1)>> }

\* The fields lines 79-90 assign, weight and scaling being any matrices.
InitPerron ==
  /\ \E insize \in PerronInsizes, outsize \in 1..MaxOut, pr \in PerronSigmaPairs :
       \E w \in [1..insize -> [1..outsize -> WeightGrid]],
          sc \in [1..insize -> [1..outsize -> ScalingGrid]] :
         perron = [insize |-> insize, outsize |-> outsize, weight |-> w, scaling |-> sc,
                   sigma_min |-> pr[1], sigma_max |-> pr[2]]
  /\ spectral = NoMap
  /\ sigma_range = [sigma_min |-> Zero, sigma_max |-> Zero]
  /\ lin_ret = <<>>
  /\ lin_pc = "idle"

RECURSIVE MaxOf(_)
MaxOf(q) == IF Len(q) = 1 THEN q[1] ELSE Max(Head(q), MaxOf(Tail(q)))

\* F.softmax of a vector: exp(x - max) / sum(exp(x - max))
SoftmaxVec(v) ==
  LET e == [j \in 1..Len(v) |-> Exp(v[j] - MaxOf(v))]
  IN  [j \in 1..Len(v) |-> RDiv(e[j], RSum(e))]

\* F.softmax(m, dim=1) normalizes every row, dim=0 every column.
Softmax_dim0(m) ==
  [i \in 1..Len(m) |-> [j \in 1..Len(m[1]) |->
     SoftmaxVec([a \in 1..Len(m) |-> m[a][j]])[i]]]
Softmax(m) == [i \in 1..Len(m) |-> SoftmaxVec(m[i])]

\* line 93
SClamped ==
  [i \in 1..perron.insize |-> [j \in 1..perron.outsize |->
     RSub(perron.sigma_max,
          RMul(RSub(perron.sigma_max, perron.sigma_min), Sigmoid(perron.scaling[i][j])))]]

\* PerronFrobeniusLinear.effective_W
Perron_effective_W ==
  LET s_clamped == SClamped
      w_softmax == Softmax(perron.weight)
  IN  [i \in 1..perron.insize |-> [j \in 1..perron.outsize |->
         RMul(s_clamped[i][j], w_softmax[i][j])]]

CallEffectiveW ==
  /\ LinOnly
  /\ lin_pc = "idle"
  /\ perron # NoMap
  /\ lin_ret' = Perron_effective_W
  /\ lin_pc' = "effective_W"
  /\ UNCHANGED <<spectral, sigma_range, perron>>

NextPerron == CallEffectiveW

\* No method of a map is being called.
NoRequest == [cls |-> "", insize |-> 0, outsize |-> 0, bias |-> FALSE]
NoCallState ==
  /\ hmethod = ""
  /\ harg = <<>>
  /\ hx = <<>>
  /\ hi = 0
  /\ refl = <<>>
CallParked ==
  /\ lmap = NoRequest
  /\ NoCallState
  /\ effW = <<>>

\* ------------------------------------------- the constructors of linear.py
Variants == {"Linear", "NonnegativeLinear", "LassoLinear", "PerronFrobeniusLinear",
             "SVDLinear", "SpectralLinear"}

\* The arguments a class hands LinearBase.__init__ (lines 17, 29, 78, 133,
\* 177); LassoLinear.__init__ makes no such call.
CallsSuperInit(cls) == cls # "LassoLinear"
SuperInitArgs(m) == IF m.cls = "Linear" THEN <<m.insize, m.outsize, m.bias>> ELSE <<>>

\* LinearBase.__init__(self, insize, outsize, bias=False): insize and outsize
\* are required, so a call without them raises TypeError.
LinearBaseInitRaises(args) == Len(args) < 2

\* The batches handed to forward: bs rows of w features.
Shapes == {<<bs, w>> : bs \in 1..2, w \in 1..MaxSize}

InitMaps ==
  /\ lmap \in [cls : Variants, insize : 1..MaxSize, outsize : 1..MaxSize, bias : BOOLEAN]
  /\ NoCallState
  /\ effW = <<>>
  /\ spectral = NoMap
  /\ sigma_range = [sigma_min |-> Zero, sigma_max |-> Zero]
  /\ perron = NoMap
  /\ lin_ret = <<>>
  /\ lin_pc = "new"

\* cls(insize, outsize, bias=...)
Construct ==
  /\ MapOnly
  /\ lin_pc = "new"
  /\ IF ~CallsSuperInit(lmap.cls)
     THEN \* line 47: a Parameter is assigned before nn.Module.__init__ has run
          /\ lin_pc' = "AttributeError"
          /\ UNCHANGED lmap
     ELSE IF LinearBaseInitRaises(SuperInitArgs(lmap))
     THEN \* line 7
          /\ lin_pc' = "TypeError"
          /\ UNCHANGED lmap
     ELSE \* line 9
          /\ lmap' = [cls |-> lmap.cls, insize |-> lmap.insize, outsize |-> lmap.outsize,
                      bias |-> lmap.bias, in_features |-> SuperInitArgs(lmap)[1],
                      out_features |-> SuperInitArgs(lmap)[2]]
          /\ lin_pc' = "constructed"
  /\ UNCHANGED <<spectral, sigma_range, perron, lin_ret, hmethod, harg, hx, hi, refl, effW>>

\* effective_W() of a constructed map: an insize x outsize matrix.
MapEffectiveW ==
  /\ MapOnly
  /\ lin_pc = "constructed"
  /\ hmethod' = "effective_W"
  /\ lin_ret' = [kind |-> "matrix", shape |-> <<lmap.insize, lmap.outsize>>]
  /\ lin_pc' = "returned"
  /\ UNCHANGED <<spectral, sigma_range, perron, lmap, harg, hx, hi, refl, effW>>

\* forward(x) of a constructed map.  LassoLinear hands torch.matmul the
\* method effective_W itself (line 61).
MapForward ==
  /\ MapOnly
  /\ lin_pc = "constructed"
  /\ hmethod' = "forward"
  /\ \E shape \in Shapes :
       /\ harg' = shape
       /\ IF lmap.cls = "LassoLinear"
          THEN lin_pc' = "TypeError" /\ UNCHANGED lin_ret
          ELSE IF shape[2] # lmap.insize
          THEN lin_pc' = "RuntimeError" /\ UNCHANGED lin_ret
          ELSE /\ lin_ret' = [kind |-> "matrix", shape |-> <<shape[1], lmap.outsize>>]
               /\ lin_pc' = "returned"
  /\ UNCHANGED <<spectral, sigma_range, perron, lmap, hx, hi, refl, effW>>

\* regularization_error(): LinearBase's 0.0 (line 12) unless the class
\* defines its own; LassoLinear's asks the method effective_W for .norm
\* (line 58).
MapRegularizationError ==
  /\ MapOnly
  /\ lin_pc = "constructed"
  /\ hmethod' = "regularization_error"
  /\ IF lmap.cls = "LassoLinear"
     THEN lin_pc' = "AttributeError" /\ UNCHANGED lin_ret
     ELSE /\ lin_ret' = [kind |-> "scalar", value |-> Zero]
          /\ lin_pc' = "returned"
  /\ UNCHANGED <<spectral, sigma_range, perron, lmap, harg, hx, hi, refl, effW>>

\* The method has returned or raised; the map stays.
MapReturn ==
  /\ MapOnly
  /\ hmethod # ""
  /\ lin_pc \in {"returned", "TypeError", "RuntimeError", "AttributeError"}
  /\ lin_pc' = "constructed"
  /\ lin_ret' = <<>>
  /\ hmethod' = ""
  /\ harg' = <<>>
  /\ UNCHANGED <<spectral, sigma_range, perron, lmap, hx, hi, refl, effW>>

NextMaps ==
  \/ Construct
  \/ MapEffectiveW
  \/ MapForward
  \/ MapRegularizationError
  \/ MapReturn

\* ------------------------------------- SpectralLinear: the reflector maps
MaxFeat == 2             \* largest insize / outsize of the maps that are run
DefaultReflectors == 20  \* n_U_reflectors and n_V_reflectors when not given

\* Matrices are sequences of rows; vectors and rows are sequences of fractions.
Width(x) == Len(x[1])
Dot(a, b) == RSum([j \in 1..Len(a) |-> RMul(a[j], b[j])])
MatMul(a, b) ==
  [r \in 1..Len(a) |-> [c \in 1..Len(b[1]) |->
     RSum([j \in 1..Len(b) |-> RMul(a[r][j], b[j][c])])]]
TorchEye(n) == [i \in 1..n |-> [j \in 1..n |-> IF i = j THEN Rat(1, 1) ELSE Zero]]
\* x + bias, the bias added to every row
AddBias(x, b) == [r \in 1..Len(x) |-> [j \in 1..Len(x[r]) |-> RAdd(x[r][j], b[j])]]

\* An upper triangular n x n matrix of non-zero entries (lines 182, 185).
Triu(n) ==
  [i \in 1..n |-> [j \in 1..n |->
     IF j < i THEN Zero ELSE Rat(IF (i + j) % 2 = 0 THEN 2 ELSE -1, 1)]]

\* The numbers of reflectors explored for a side of size n: none, fewer than
\* n, n, and the default.
ReflectorCounts(n) == (0..n) \cup {DefaultReflectors}

\* The bias vectors explored: the initial zeros and a trained value.
Biases(n) == { [j \in 1..n |-> Zero], [j \in 1..n |-> Rat(j, 2)] }

\* The batches explored, of one and of two rows, for a width w.
Batches(w) ==
  { << [j \in 1..w |-> Rat(j, 1)] >>,
    << [j \in 1..w |-> IF j = 1 THEN Rat(1, 1) ELSE Zero], [j \in 1..w |-> Rat(-1, 1)] >> }
\* The vectors u explored for a direct Hprod call.
Reflectors(w) == { [j \in 1..w |-> Rat(j, 1)], [j \in 1..w |-> Rat(IF j = 1 THEN -1 ELSE 2, 1)] }

\* The fields lines 178-186 assign, for sigma_min = 0.6 and sigma_max = 1.
InitHouseholder ==
  /\ \E insize \in 1..MaxFeat, outsize \in 1..MaxFeat :
       \E nU \in ReflectorCounts(insize), nV \in ReflectorCounts(outsize),
          logit \in {0, MaxLogit}, b \in Biases(outsize) :
         spectral = [insize |-> insize, outsize |-> outsize,
                     n_U_reflectors |-> nU, n_V_reflectors |-> nV,
                     r |-> InitR(Rat(3, 5), Rat(1, 1)),
                     sigma_mean |-> InitSigmaMean(Rat(3, 5), InitR(Rat(3, 5), Rat(1, 1))),
                     U |-> Triu(insize), V |-> Triu(outsize),
                     p |-> [i \in 1..Min(insize, outsize) |-> logit],
                     bias |-> b]
  /\ sigma_range = [sigma_min |-> Rat(3, 5), sigma_max |-> Rat(1, 1)]
  /\ perron = NoMap
  /\ lmap = NoRequest
  /\ NoCallState
  /\ effW = <<>>
  /\ lin_ret = <<>>
  /\ lin_pc = "idle"

\* SpectralLinear.Hprod
Hprod_leading(x, u, kk) ==
  LET n == Width(x)
      uk == PySlice(u, 0, kk)
      alpha == [r \in 1..Len(x) |->
                  RDiv(RMul(Rat(2, 1), Dot(PySlice(x[r], 0, kk), uk)), Dot(uk, uk))]
  IN  [r \in 1..Len(x) |->
         [j \in 1..Len(uk) |-> RSub(x[r][j], RMul(alpha[r], uk[j]))] \o PySlice(x[r], kk, n)]
Hprod(x, u, kk) ==
  LET n == Width(x)
      uk == PySlice(u, -kk, Len(u))
      xk == [r \in 1..Len(x) |-> PySlice(x[r], -kk, n)]
      alpha == [r \in 1..Len(x) |-> RDiv(RMul(Rat(2, 1), Dot(xk[r], uk)), Dot(uk, uk))]
      sub == [r \in 1..Len(x) |->
                [j \in 1..Len(uk) |-> RSub(xk[r][j], RMul(alpha[r], uk[j]))]]
  IN  IF kk < n
      THEN [r \in 1..Len(x) |-> PySlice(x[r], 0, -kk) \o sub[r]]
      ELSE sub

\* One Hprod call, as the trace keeps it.
HprodCall(op, i, kk, u, x) ==
  [op |-> op, i |-> i, k |-> kk, u |-> u, before |-> x, after |-> Hprod(x, u, kk)]

\* line 214: range(0, n_U_reflectors); line 224: range(n_V_reflectors - 1, -1, -1)
URange == [j \in 1..spectral.n_U_reflectors |-> j - 1]
VRange_ascending == [j \in 1..spectral.n_V_reflectors |-> j - 1]
VRange == [j \in 1..spectral.n_V_reflectors |-> spectral.n_V_reflectors - j]

\* lines 213 and 223: the assert statements
UmultiplyAssertFails_outsize(x) == Width(x) # spectral.outsize
UmultiplyAssertFails(x) == Width(x) # spectral.insize
VmultiplyAssertFails(x) == Width(x) # spectral.outsize

BeginCall(method, x, at) ==
  /\ hmethod' = method
  /\ harg' = x
  /\ hx' = x
  /\ hi' = 0
  /\ refl' = <<>>
  /\ lin_ret' = <<>>
  /\ lin_pc' = at
  /\ UNCHANGED <<spectral, sigma_range, perron, lmap, effW>>

\* Hprod(x, u, k) called directly
CallHprod ==
  /\ MapOnly
  /\ lin_pc = "idle"
  /\ \E w \in 1..(MaxFeat + 1) : \E x \in Batches(w), u \in Reflectors(w), kk \in 0..(w + 1) :
       /\ hmethod' = "Hprod"
       /\ harg' = x
       /\ refl' = <<HprodCall("H", 0, kk, u, x)>>
       /\ lin_ret' = Hprod(x, u, kk)
  /\ lin_pc' = "returned"
  /\ UNCHANGED <<spectral, sigma_range, perron, lmap, hx, hi, effW>>

CallUmultiply ==
  /\ MapOnly
  /\ lin_pc = "idle"
  /\ \E w \in 1..(MaxFeat + 1) : \E x \in Batches(w) : BeginCall("Umultiply", x, "Umultiply")

CallVmultiply ==
  /\ MapOnly
  /\ lin_pc = "idle"
  /\ \E w \in 1..(MaxFeat + 1) : \E x \in Batches(w) : BeginCall("Vmultiply", x, "Vmultiply")

\* forward(x), line 238
CallForward ==
  /\ MapOnly
  /\ lin_pc = "idle"
  /\ \E w \in 1..(MaxFeat + 1) : \E x \in Batches(w) : BeginCall("forward", x, "Umultiply")

\* effective_W(), line 229: forward of the identity
CallSpectralEffectiveW ==
  /\ MapOnly
  /\ lin_pc = "idle"
  /\ BeginCall("effective_W", TorchEye(spectral.insize), "Umultiply")

\* line 213
UmultiplyAssert ==
  /\ MapOnly
  /\ lin_pc = "Umultiply"
  /\ lin_pc' = IF UmultiplyAssertFails(hx) THEN "AssertionError" ELSE "Uloop"
  /\ hi' = 1
  /\ UNCHANGED <<spectral, sigma_range, perron, lin_ret, lmap, hmethod, harg, hx, refl, effW>>

\* lines 214-215: one pass of the loop; self.U[i] raises IndexError when the
\* matrix has no row i.
UmultiplyReflect ==
  /\ MapOnly
  /\ lin_pc = "Uloop"
  /\ hi <= Len(URange)
  /\ LET i == URange[hi]
     IN  IF i >= Len(spectral.U)
         THEN /\ lin_pc' = "IndexError"
              /\ UNCHANGED <<hx, hi, refl>>
         ELSE LET call == HprodCall("U", i, spectral.insize - i, spectral.U[i + 1], hx)
              IN  /\ hx' = call.after
                  /\ refl' = Append(refl, call)
                  /\ hi' = hi + 1
                  /\ UNCHANGED lin_pc
  /\ UNCHANGED <<spectral, sigma_range, perron, lin_ret, lmap, hmethod, harg, effW>>

\* line 216
UmultiplyReturn ==
  /\ MapOnly
  /\ lin_pc = "Uloop"
  /\ hi > Len(URange)
  /\ IF hmethod = "Umultiply"
     THEN lin_ret' = hx /\ lin_pc' = "returned"
     ELSE UNCHANGED lin_ret /\ lin_pc' = "Sigma"
  /\ UNCHANGED <<spectral, sigma_range, perron, lmap, hmethod, harg, hx, hi, refl, effW>>

\* line 239
ForwardSigma ==
  /\ MapOnly
  /\ lin_pc = "Sigma"
  /\ hx' = MatMul(hx, Sigma)
  /\ lin_pc' = "Vmultiply"
  /\ UNCHANGED <<spectral, sigma_range, perron, lin_ret, lmap, hmethod, harg, hi, refl, effW>>

\* line 223
VmultiplyAssert ==
  /\ MapOnly
  /\ lin_pc = "Vmultiply"
  /\ lin_pc' = IF VmultiplyAssertFails(hx) THEN "AssertionError" ELSE "Vloop"
  /\ hi' = 1
  /\ UNCHANGED <<spectral, sigma_range, perron, lin_ret, lmap, hmethod, harg, hx, refl, effW>>

\* lines 224-225
VmultiplyReflect ==
  /\ MapOnly
  /\ lin_pc = "Vloop"
  /\ hi <= Len(VRange)
  /\ LET i == VRange[hi]
     IN  IF i >= Len(spectral.V)
         THEN /\ lin_pc' = "IndexError"
              /\ UNCHANGED <<hx, hi, refl>>
         ELSE LET call == HprodCall("V", i, spectral.outsize - i, spectral.V[i + 1], hx)
              IN  /\ hx' = call.after
                  /\ refl' = Append(refl, call)
                  /\ hi' = hi + 1
                  /\ UNCHANGED lin_pc
  /\ UNCHANGED <<spectral, sigma_range, perron, lin_ret, lmap, hmethod, harg, effW>>

\* line 226
VmultiplyReturn ==
  /\ MapOnly
  /\ lin_pc = "Vloop"
  /\ hi > Len(VRange)
  /\ IF hmethod = "Vmultiply"
     THEN lin_ret' = hx /\ lin_pc' = "returned"
     ELSE UNCHANGED lin_ret /\ lin_pc' = "bias"
  /\ UNCHANGED <<spectral, sigma_range, perron, lmap, hmethod, harg, hx, hi, refl, effW>>

\* lines 241-243: self.bias is a Parameter, never None
ForwardBias ==
  /\ MapOnly
  /\ lin_pc = "bias"
  /\ LET x == AddBias(hx, spectral.bias)
     IN  /\ hx' = x
         /\ lin_ret' = x
         /\ effW' = IF hmethod = "effective_W" THEN x ELSE effW
  /\ lin_pc' = "returned"
  /\ UNCHANGED <<spectral, sigma_range, perron, lmap, hmethod, harg, hi, refl>>

\* The method has returned or raised: its locals are gone, the map stays.
SpectralReturn ==
  /\ MapOnly
  /\ lin_pc \in {"returned", "AssertionError", "IndexError"}
  /\ lin_pc' = "idle"
  /\ lin_ret' = <<>>
  /\ hmethod' = ""
  /\ harg' = <<>>
  /\ hx' = <<>>
  /\ hi' = 0
  /\ refl' = <<>>
  /\ UNCHANGED <<spectral, sigma_range, perron, lmap, effW>>

NextHouseholder ==
  \/ CallHprod
  \/ CallUmultiply
  \/ CallVmultiply
  \/ CallForward
  \/ CallSpectralEffectiveW
  \/ UmultiplyAssert
  \/ UmultiplyReflect
  \/ UmultiplyReturn
  \/ ForwardSigma
  \/ VmultiplyAssert
  \/ VmultiplyReflect
  \/ VmultiplyReturn
  \/ ForwardBias
  \/ SpectralReturn

\* A closed-loop simulator and its simulate() calls.
Init == InitSim /\ AggParked /\ LinParked /\ CallParked
Spec == Init /\ [][NextSim]_vars

\* agg() applied to a sequence of output dicts.
AggInit == InitAgg /\ SimParked /\ LinParked /\ CallParked
SpecAgg == AggInit /\ [][NextAgg]_vars

\* Sigma() called on a SpectralLinear.
SigmaInit == InitSpectral /\ SimParked /\ AggParked /\ CallParked
SpecSigma == SigmaInit /\ [][NextSigma]_vars

\* effective_W() called on a PerronFrobeniusLinear.
PerronInit == InitPerron /\ SimParked /\ AggParked /\ CallParked
SpecPerron == PerronInit /\ [][NextPerron]_vars

\* The six classes of linear.py constructed and their methods called.
MapsInit == InitMaps /\ SimParked /\ AggParked
SpecMaps == MapsInit /\ [][NextMaps]_vars

\* Hprod, Umultiply, Vmultiply, forward and effective_W of a SpectralLinear.
HouseholderInit == InitHouseholder /\ SimParked /\ AggParked
SpecHouseholder == HouseholderInit /\ [][NextHouseholder]_vars

\* ------------------------------------------- closed-loop simulation claims

\* simulate() is inside the loop or past it.
InLoop == pc \in {"estimator", "policy", "emulator"}
\* An iteration has run to its end; the step locals are that iteration's.
StepDone == pc \in {"estimator", "cat"} /\ visited # <<>>
\* The index of the iteration the step locals belong to.
LastK == visited[Len(visited)]
\* The number of iterations that ran to their end.
Completed == IF pc \in {"policy", "emulator", "IndexError", "KeyError"}
             THEN Len(visited) - 1 ELSE Len(visited)

\* C1: the loop starts at start_k = max(policy.nsteps, estimator.window_size)
\* and takes the indices start_k, start_k+1, ... once each and in increasing
\* order; when the loop is over it has taken exactly nsim of them.
C1_LoopIndices ==
  (pc \in {"estimator", "policy", "emulator", "cat", "done", "IndexError", "KeyError",
           "RuntimeError"}) =>
    /\ start_k = Max(policy.nsteps, estimator.window_size)
    /\ \A i \in DOMAIN visited : visited[i] = Max(policy.nsteps, estimator.window_size) + i - 1
    /\ Len(visited) <= nsim
    /\ (pc \in {"cat", "done", "RuntimeError"} => Len(visited) = nsim)

\* nsteps = 2, window_size = 3: three steps k = 3, 4, 5 and a normal return.
C1_Witness ==
  /\ pc = "done"
  /\ policy.nsteps = 2
  /\ estimator.window_size = 3
  /\ nsim = 3
  /\ visited = <<3, 4, 5>>

\* C2: every step appends exactly one entry to the list of every retained
\* key: after j completed steps every list has length j, after the loop
\* every list has nsim entries, and what is returned for a key holds rows of
\* every one of the nsim steps, in step order.
C2_OneEntryPerStep ==
  /\ (InLoop \/ pc \in {"cat", "IndexError", "KeyError", "RuntimeError"}) =>
       /\ DOMAIN cl_data = Range(cl_keys)
       /\ \A key \in DOMAIN cl_data :
            /\ Len(cl_data[key]) = Completed
            /\ \A j \in DOMAIN cl_data[key] :
                 \A i \in DOMAIN cl_data[key][j] : cl_data[key][j][i].k = start_k + j - 1
  /\ (pc = "cat") => \A key \in DOMAIN cl_data : Len(cl_data[key]) = nsim
  /\ (pc = "done") =>
       \A key \in DOMAIN cl_data :
         /\ {cl_data[key][i].k : i \in DOMAIN cl_data[key]} = start_k..(start_k + nsim - 1)
         /\ \A i, j \in DOMAIN cl_data[key] : i <= j => cl_data[key][i].k <= cl_data[key][j].k

\* Three steps are over and three keys are retained, each with three entries.
C2_Witness ==
  /\ pc = "cat"
  /\ nsim = 3
  /\ Cardinality(DOMAIN cl_data) = 3
  /\ \A key \in DOMAIN cl_data : Len(cl_data[key]) = 3

\* Every key the three components declare.
DeclaredKeys ==
  Range(estimator.output_keys) \cup Range(policy.output_keys) \cup Range(emulator.output_keys)

\* C3 (as claimed): whatever the three output_keys lists are, the returned
\* dictionary holds none of the three regularization-error keys and holds
\* every other declared key.
C3_RegKeysExcluded ==
  (pc = "done") =>
    /\ DOMAIN cl_data \cap RegKeys = {}
    /\ DOMAIN cl_data = DeclaredKeys \ RegKeys

\* The policy's first output key: the one rhc slices.
UKey == policy.output_keys[1]
\* The first time step of what the policy returned for it.
FirstStep == <<policy_raw[UKey][1]>>

\* C4 (as claimed): the first time step of the policy's output is what the
\* emulator is handed and what is recorded for the step.
C4_FirstStepPassedAndRecorded ==
  StepDone =>
    /\ step_in.emulator[UKey] = FirstStep
    /\ cl_step_data[UKey] = FirstStep

\* C4 (amended): the emulator is handed the first time step of the policy's
\* first output key and nothing of its later time steps; the step record
\* holds that first time step too unless the emulator itself returns the
\* key, and then it holds the emulator's value; no later time step of the
\* key is handed on or recorded.
C4_RecedingHorizon ==
  StepDone =>
    /\ policy_out[UKey] = FirstStep
    /\ FirstStep = <<Val("policy", UKey, LastK, 0)>>
    /\ step_in.emulator[UKey] = FirstStep
    /\ cl_step_data[UKey] = IF UKey \in DOMAIN emulator_out
                            THEN emulator_out[UKey] ELSE FirstStep
    /\ \A i \in DOMAIN cl_step_data[UKey] :
         cl_step_data[UKey][i].src = "policy" => cl_step_data[UKey][i].t = 0
    /\ UKey \in DOMAIN cl_data =>
         \A j \in DOMAIN cl_data[UKey] : Len(cl_data[UKey][j]) = 1

\* A policy with a horizon of three time steps, an emulator that does not
\* return the policy's key: the step record holds the first time step only.
C4_Witness ==
  /\ StepDone
  /\ policy.nsteps = 3
  /\ Len(policy_raw[UKey]) = 3
  /\ UKey \notin DOMAIN emulator_out
  /\ step_in.emulator[UKey] = <<Val("policy", "u", LastK, 0)>>
  /\ cl_step_data[UKey] = <<Val("policy", "u", LastK, 0)>>

\* C5 (as claimed): without an estimator simulate() raises nothing on that
\* account, the estimator output is the empty mapping at every step and the
\* loop still runs nsim times.
C5_NoEstimatorCompletes ==
  (estimator = None) =>
    /\ pc # "AttributeError"
    /\ (pc \in {"policy", "emulator"} => estim_out = EmptyDict)
    /\ (pc = "done" => Len(visited) = nsim)

\* The tokens a component was handed in the iteration the step locals
\* belong to.  A raw emulator input is one row (data[key][k, :, :]).
InputTokens(comp) ==
  IF comp = "emulator"
  THEN UNION { IF key \in (DOMAIN estim_out) \cup (DOMAIN policy_out)
               THEN Range(step_in.emulator[key])
               ELSE {step_in.emulator[key]} : key \in DOMAIN step_in.emulator }
  ELSE UNION { Range(step_in[comp][key]) : key \in DOMAIN step_in[comp] }

Components == {"estimator", "policy", "emulator"}

\* C6 (as claimed): from the second step on, some component is handed a
\* value that a component returned at an earlier step.
C6_Feedback ==
  (StepDone /\ Len(visited) >= 2) =>
    \E comp \in Components : \E v \in InputTokens(comp) :
      v.src \in Components /\ v.k < LastK

\* What the code does instead: every input is a row of sim_data or an
\* output of the same step.
InputsAreOpenLoop ==
  StepDone =>
    \A comp \in Components : \A v \in InputTokens(comp) :
      v.src = "sim_data" \/ v.k = LastK

\* C14: the step record is the estimator's, the policy's and the emulator's
\* outputs merged in that order, the later component's value taking a key
\* that several return; the emulator's input is the raw step data, then the
\* estimator's outputs, then the policy's, the later again taking the key.
C14_MergeOrder ==
  StepDone =>
    /\ DOMAIN cl_step_data = (DOMAIN estim_out) \cup (DOMAIN policy_out) \cup (DOMAIN emulator_out)
    /\ \A key \in DOMAIN cl_step_data :
         cl_step_data[key] = IF key \in DOMAIN emulator_out THEN emulator_out[key]
                             ELSE IF key \in DOMAIN policy_out THEN policy_out[key]
                             ELSE estim_out[key]
    /\ DOMAIN step_in.emulator =
         (Range(emulator.input_keys) \cap DOMAIN sim_data) \cup (DOMAIN estim_out)
           \cup (DOMAIN policy_out)
    /\ \A key \in DOMAIN step_in.emulator :
         step_in.emulator[key] = IF key \in DOMAIN policy_out THEN policy_out[key]
                                 ELSE IF key \in DOMAIN estim_out THEN estim_out[key]
                                 ELSE sim_data[key][LastK + 1]

\* All three components return "u" and the estimator returns "x", which is
\* also a raw series: the record holds the emulator's "u", the emulator was
\* handed the policy's "u", the estimator's "x" and the raw "d".
C14_Witness ==
  /\ StepDone
  /\ "u" \in (DOMAIN estim_out) \cap (DOMAIN policy_out) \cap (DOMAIN emulator_out)
  /\ cl_step_data["u"] = <<Val("emulator", "u", LastK, 0)>>
  /\ step_in.emulator["u"] = <<Val("policy", "u", LastK, 0)>>
  /\ step_in.emulator["x"] = <<Val("estimator", "x", LastK, 0)>>
  /\ step_in.emulator["d"] = Val("sim_data", "d", LastK, 0)

\* C18: simulate() leaves sim_data and the three output_keys lists as they
\* were before the first call, and a later simulate(nsim) ends as the first
\* simulate(nsim) did, with the same keys and the same sequence lengths.
C18_SimulatorUnchanged ==
  first_call.called =>
    /\ Own = first_call.before
    /\ (first_call.returned /\ pc \in Raised \cup {"done"} /\ nsim = first_call.nsim) =>
         /\ pc = first_call.outcome
         /\ Lens(cl_data) = first_call.lens

\* A second simulate(3) has returned what the first simulate(3) returned:
\* three rows for each of three keys.
C18_Witness ==
  /\ first_call.returned
  /\ first_call.outcome = "done"
  /\ first_call.nsim = 3
  /\ pc = "done"
  /\ nsim = 3
  /\ Cardinality(DOMAIN cl_data) = 3
  /\ \A key \in DOMAIN cl_data : Len(cl_data[key]) = 3
  /\ Lens(cl_data) = first_call.lens
  /\ Own = first_call.before

\* The rows [kk - n, kk) of a raw series.
Window(key, kk, n) == [j \in 1..n |-> Val("sim_data", key, kk - n + j - 1, 0)]

\* C19 (as claimed): at every step the estimator is handed the
\* estimator.window_size rows before k, the policy the policy.nsteps rows
\* before k, and neither window starts below row 0.
C19_Windows ==
  (StepDone /\ estimator # None) =>
    /\ \A key \in DOMAIN step_in.estimator :
         step_in.estimator[key] = Window(key, LastK, estimator.window_size)
    /\ \A key \in (DOMAIN step_in.policy) \ (DOMAIN estim_out) :
         step_in.policy[key] = Window(key, LastK, policy.nsteps)
    /\ LastK - estimator.window_size >= 0
    /\ LastK - policy.nsteps >= 0

\* What the code hands the estimator: the policy.nsteps rows before k.
EstimatorWindowIsPolicyHorizon ==
  (StepDone /\ estimator # None) =>
    /\ \A key \in DOMAIN step_in.estimator :
         step_in.estimator[key] = Window(key, LastK, policy.nsteps)
    /\ \A key \in (DOMAIN step_in.policy) \ (DOMAIN estim_out) :
         step_in.policy[key] = Window(key, LastK, policy.nsteps)
    /\ LastK - Max(estimator.window_size, policy.nsteps) >= 0

\* ------------------------------------------------------------ agg claims

\* Entry (r, c) of a two-dimensional tensor, r and c counted from 1.
Elem2(t, r, c) == t.data[(r - 1) * t.shape[2] + c]
\* The number of rows the dicts before dict d hold for the key.
RowsBefore(key, d) == SumSeq([e \in 1..(d - 1) |-> outputs[e][key].shape[1]])

\* C7: agg of a non-empty sequence that returns gives, for every tensor
\* entry of fewer than two dimensions, the mean of the key's values over the
\* sequence and, for every entry of two dimensions, the dicts' tensors one
\* after the other along the leading axis (stack = False) or along a new
\* leading axis (stack = True), in the order of the sequence.
C7_Agg ==
  (agg_pc = "done") =>
    /\ outputs # <<>>
    /\ DOMAIN agg_outputs = DOMAIN outputs[1]
    /\ \A key \in {"loss", "Y"} :
         LET first == outputs[1][key]
             got == agg_outputs[key]
             n == Len(outputs)
         IN  IF Len(first.shape) < 2
             THEN /\ got.shape = <<>>
                  /\ got.data[1].n * SumSeq([d \in 1..n |-> Len(outputs[d][key].data)])
                       = got.data[1].d * SumSeq([d \in 1..n |-> SumSeq(outputs[d][key].data)])
             ELSE IF stack
             THEN /\ got.shape = <<n, first.shape[1], first.shape[2]>>
                  /\ Len(got.data) = n * first.shape[1] * first.shape[2]
                  /\ \A d \in 1..n : \A r \in 1..first.shape[1] : \A c \in 1..first.shape[2] :
                       got.data[((d - 1) * first.shape[1] + (r - 1)) * first.shape[2] + c]
                         = Elem2(outputs[d][key], r, c)
             ELSE /\ got.shape = <<RowsBefore(key, n + 1), first.shape[2]>>
                  /\ Len(got.data) = RowsBefore(key, n + 1) * first.shape[2]
                  /\ \A d \in 1..n : \A r \in 1..outputs[d][key].shape[1] :
                       \A c \in 1..first.shape[2] :
                         Elem2(got, RowsBefore(key, d) + r, c) = Elem2(outputs[d][key], r, c)

\* Losses 1 and 3 give the mean 2; a (1,2) and a (2,2) tensor give the
\* (3,2) concatenation.
C7_Witness ==
  /\ agg_pc = "done"
  /\ ~stack
  /\ Len(outputs) = 2
  /\ outputs[1].loss.data = <<1>> /\ outputs[2].loss.data = <<3>>
  /\ agg_outputs.loss = Tensor(<<>>, <<Rat(2, 1)>>)
  /\ agg_outputs.Y = Tensor(<<3, 2>>, <<11, 12, 31, 32, 33, 34>>)

\* Two (1,2) tensors stacked give a (2,1,2) tensor.
C7_WitnessStack ==
  /\ agg_pc = "done"
  /\ stack
  /\ agg_outputs.Y = Tensor(<<2, 1, 2>>, <<21, 22, 11, 12>>)

\* ------------------------------------------------------- linear.py claims

\* C8: for sigma_min <= sigma_max and any logits p, every singular value
\* Sigma() puts on the diagonal lies in [sigma_min, sigma_max].
C8_SigmaBounded ==
  (lin_pc = "Sigma") =>
    \A i \in 1..Min(spectral.insize, spectral.outsize) :
      /\ RLe(sigma_range.sigma_min, lin_ret[i][i])
      /\ RLe(lin_ret[i][i], sigma_range.sigma_max)

\* sigma_min = 0.6, sigma_max = 1: a saturated logit gives exactly 1, the
\* logit -1 gives 0.8 + 0.4 * (0.269 - 0.5) = 0.7076.
C8_Witness ==
  /\ lin_pc = "Sigma"
  /\ sigma_range = [sigma_min |-> Rat(3, 5), sigma_max |-> Rat(1, 1)]
  /\ spectral.p = <<MaxLogit, -1>>
  /\ lin_ret[1][1] = Rat(1, 1)
  /\ lin_ret[2][2] = Rat(7076, 10000)

\* C9: Sigma() returns an insize x outsize matrix with the singular values
\* at (i,i), i up to min(insize, outsize), and zero everywhere else; the
\* diagonalized vector is the singular values followed by exactly
\* |insize - outsize| zeros, none when insize = outsize.
C9_SigmaShape ==
  (lin_pc = "Sigma") =>
    /\ Len(lin_ret) = spectral.insize
    /\ \A i \in 1..spectral.insize :
         /\ Len(lin_ret[i]) = spectral.outsize
         /\ \A j \in 1..spectral.outsize :
              lin_ret[i][j] = IF i = j THEN Sigmas[i] ELSE Zero
    /\ Len(Sigmas) = Min(spectral.insize, spectral.outsize)
    /\ Len(SigmaPadded) = Len(Sigmas) + Abs(spectral.insize - spectral.outsize)
    /\ SubSeq(SigmaPadded, 1, Len(Sigmas)) = Sigmas
    /\ \A i \in (Len(Sigmas) + 1)..Len(SigmaPadded) : SigmaPadded[i] = Zero
    /\ (spectral.insize = spectral.outsize => SigmaPadded = Sigmas)

\* A 2 x 3 map: two singular values, one zero of padding, a 2 x 3 result.
C9_Witness ==
  /\ lin_pc = "Sigma"
  /\ spectral.insize = 2 /\ spectral.outsize = 3
  /\ sigma_range = [sigma_min |-> Rat(3, 5), sigma_max |-> Rat(1, 1)]
  /\ spectral.p = <<0, MaxLogit>>
  /\ lin_ret = << <<Rat(4, 5), Zero, Zero>>, <<Zero, Rat(1, 1), Zero>> >>

\* The sum of row i of the matrix effective_W() returned.
RowSum(i) == RSum(lin_ret[i])

\* C10 (as claimed): every row sum of effective_W() equals the sigma of its
\* row, and so lies in [sigma_min, sigma_max].
C10_RowSumIsRowSigma ==
  (lin_pc = "effective_W") =>
    \A i \in 1..perron.insize :
      /\ \A j \in 1..perron.outsize : RowSum(i) = SClamped[i][j]
      /\ RLe(perron.sigma_min, RowSum(i))
      /\ RLe(RowSum(i), perron.sigma_max)

\* C10 (amended): sigma is a matrix, one entry per weight; every row sum
\* lies between the smallest and the largest sigma of its row, so in
\* [sigma_min, sigma_max], and equals the row's sigma when the sigmas of the
\* row are all the same.
C10_RowSumBounded ==
  (lin_pc = "effective_W") =>
    LET sigma == SClamped
        sum == [i \in 1..perron.insize |-> RowSum(i)]
    IN  \A i \in 1..perron.insize :
          /\ RLe(perron.sigma_min, sum[i])
          /\ RLe(sum[i], perron.sigma_max)
          /\ \E j \in 1..perron.outsize : RLe(sigma[i][j], sum[i])
          /\ \E j \in 1..perron.outsize : RLe(sum[i], sigma[i][j])
          /\ (\A j \in 1..perron.outsize : sigma[i][j] = sigma[i][1])
               => sum[i] = sigma[i][1]

\* A row whose two sigmas differ: the row sum is strictly between them.
C10_Witness ==
  /\ lin_pc = "effective_W"
  /\ perron.outsize = 2
  /\ perron.sigma_min = Rat(19, 20) /\ perron.sigma_max = Rat(1, 1)
  /\ perron.scaling[1] = <<-100, 1>>
  /\ perron.weight[1] = <<0, 1>>
  /\ RowSum(1) # SClamped[1][1]
  /\ RowSum(1) # SClamped[1][2]
  /\ RLe(SClamped[1][2], RowSum(1))
  /\ RLe(RowSum(1), SClamped[1][1])

\* ------------------------------------------------ map contract claims

\* C11 (as claimed): each of the six classes, constructed from (insize,
\* outsize), records in_features = insize and out_features = outsize, and
\* then answers effective_W(), forward(x) for x of insize features and
\* regularization_error() without raising, the last with a non-negative
\* scalar that is zero unless the class defines its own.
C11_UniformContract ==
  (lin_pc # "new") =>
    /\ (hmethod = "" =>
          /\ lin_pc = "constructed"
          /\ lmap.in_features = lmap.insize
          /\ lmap.out_features = lmap.outsize)
    /\ (hmethod = "effective_W" =>
          /\ lin_pc = "returned"
          /\ lin_ret = [kind |-> "matrix", shape |-> <<lmap.in_features, lmap.out_features>>])
    /\ ((hmethod = "forward" /\ harg[2] = lmap.in_features) =>
          /\ lin_pc = "returned"
          /\ lin_ret = [kind |-> "matrix", shape |-> <<harg[1], lmap.out_features>>])
    /\ (hmethod = "regularization_error" =>
          /\ lin_pc = "returned"
          /\ lin_ret.kind = "scalar"
          /\ RLe(Zero, lin_ret.value)
          /\ (lmap.cls # "LassoLinear" => lin_ret.value = Zero))

\* What the code does: the constructor returns for Linear and for no other
\* class, and a Linear honours the contract.
OnlyLinearConstructs ==
  (lin_pc # "new") =>
    /\ (lmap.cls = "LassoLinear" => lin_pc = "AttributeError")
    /\ (lmap.cls \in Variants \ {"Linear", "LassoLinear"} => lin_pc = "TypeError")
    /\ (lmap.cls = "Linear" => C11_UniformContract)

\* ---------------------------------------------- SpectralLinear claims

\* C12: Umultiply(x) fails its assert, with no reflection applied and x as
\* it was handed in, exactly when x does not have insize features;
\* Vmultiply(x) likewise with outsize.
C12_DimensionAsserts ==
  /\ (hmethod = "Umultiply" /\ lin_pc # "Umultiply") =>
       /\ (lin_pc = "AssertionError") <=> (Width(harg) # spectral.insize)
       /\ (lin_pc = "AssertionError") => (refl = <<>> /\ hx = harg)
  /\ (hmethod = "Vmultiply" /\ lin_pc # "Vmultiply") =>
       /\ (lin_pc = "AssertionError") <=> (Width(harg) # spectral.outsize)
       /\ (lin_pc = "AssertionError") => (refl = <<>> /\ hx = harg)

\* A map with insize 2 and outsize 1 and two U reflectors: Umultiply of a
\* batch of one feature fails its assert before any reflection.
C12_Witness ==
  /\ hmethod = "Umultiply"
  /\ lin_pc = "AssertionError"
  /\ spectral.insize = 2 /\ spectral.outsize = 1
  /\ spectral.n_U_reflectors = 2
  /\ Width(harg) = 1
  /\ refl = <<>>

\* C13 (as claimed): forward(x) = x * effective_W() + bias for every x and
\* every bias.
C13_EffectiveWExact ==
  (hmethod = "forward" /\ lin_pc = "returned" /\ effW # <<>>) =>
    lin_ret = AddBias(MatMul(harg, effW), spectral.bias)

\* What the code does: effective_W() is forward(identity), so each of its
\* rows holds the bias; forward(x) = x * (effective_W() - bias) + bias.
EffectiveWHoldsBias ==
  (hmethod = "forward" /\ lin_pc = "returned" /\ effW # <<>>) =>
    LET W == [i \in 1..Len(effW) |-> [j \in 1..Len(effW[i]) |->
                RSub(effW[i][j], spectral.bias[j])]]
    IN  lin_ret = AddBias(MatMul(harg, W), spectral.bias)

\* C15: Hprod(x, u, k) with 1 <= k <= dim returns a matrix of x's shape
\* whose first dim - k columns are x's; the last k columns are x's minus
\* alpha (outer) u_last_k, alpha = 2 (x_last_k . u_last_k) / |u_last_k|^2.
C15_HprodFrame ==
  \A c \in Range(refl) :
    (1 <= c.k /\ c.k <= Width(c.before)) =>
      LET n == Width(c.before)
          m == Len(c.u)
          norm2 == RSum([j \in 1..c.k |-> RMul(c.u[m - c.k + j], c.u[m - c.k + j])])
          alpha == [r \in 1..Len(c.before) |->
                      RDiv(RMul(Rat(2, 1),
                                RSum([j \in 1..c.k |->
                                        RMul(c.before[r][n - c.k + j], c.u[m - c.k + j])])),
                           norm2)]
      IN  /\ Len(c.after) = Len(c.before)
          /\ \A r \in 1..Len(c.before) :
               /\ Len(c.after[r]) = n
               /\ \A j \in 1..(n - c.k) : c.after[r][j] = c.before[r][j]
               /\ \A j \in 1..c.k :
                    c.after[r][n - c.k + j] =
                      RSub(c.before[r][n - c.k + j], RMul(alpha[r], c.u[m - c.k + j]))

\* x = (1 2 3), u = (1 2 3), k = 1: alpha = 2, the result is (1 2 -3).
C15_Witness ==
  /\ hmethod = "Hprod"
  /\ Len(refl) = 1
  /\ refl[1].k = 1
  /\ refl[1].before = << <<Rat(1, 1), Rat(2, 1), Rat(3, 1)>> >>
  /\ refl[1].u = <<Rat(1, 1), Rat(2, 1), Rat(3, 1)>>
  /\ lin_ret = << <<Rat(1, 1), Rat(2, 1), Rat(-3, 1)>> >>

\* The reflections of the U loop and of the V loop made so far.
UCalls == SelectSeq(refl, LAMBDA c : c.op = "U")
VCalls == SelectSeq(refl, LAMBDA c : c.op = "V")
\* The U loop, the V loop is over and its method has returned.
UDone == (hmethod # "Vmultiply" /\ lin_pc \in {"Sigma", "Vmultiply", "Vloop", "bias"})
           \/ (lin_pc = "returned" /\ hmethod \in {"Umultiply", "forward", "effective_W"})
VDone == lin_pc = "bias"
           \/ (lin_pc = "returned" /\ hmethod \in {"Vmultiply", "forward", "effective_W"})
\* The x Vmultiply was handed.
VArg == IF hmethod = "Vmultiply" THEN harg
        ELSE MatMul(IF UCalls = <<>> THEN harg ELSE UCalls[Len(UCalls)].after, Sigma)

\* C16: Umultiply's j-th reflection is the one of index j-1, with reflector
\* U[j-1] and window insize-(j-1), applied to the result of the one before;
\* when Umultiply returns it has made n_U_reflectors of them.  Vmultiply's
\* j-th reflection is the one of index n_V_reflectors-j, with reflector
\* V[n_V_reflectors-j] and window outsize-(n_V_reflectors-j), applied to
\* the result of the one before; when it returns it has made
\* n_V_reflectors of them.
C16_ReflectorOrder ==
  (hmethod \in {"Umultiply", "Vmultiply", "forward", "effective_W"}) =>
    /\ refl = UCalls \o VCalls
    /\ \A j \in DOMAIN UCalls :
         /\ UCalls[j].i = j - 1
         /\ UCalls[j].k = spectral.insize - (j - 1)
         /\ UCalls[j].u = spectral.U[j]
         /\ UCalls[j].before = IF j = 1 THEN harg ELSE UCalls[j - 1].after
    /\ Len(UCalls) <= spectral.n_U_reflectors
    /\ UDone => Len(UCalls) = spectral.n_U_reflectors
    /\ (lin_pc = "returned" /\ hmethod = "Umultiply") =>
         lin_ret = IF UCalls = <<>> THEN harg ELSE UCalls[Len(UCalls)].after
    /\ \A j \in DOMAIN VCalls :
         /\ VCalls[j].i = spectral.n_V_reflectors - j
         /\ VCalls[j].k = spectral.outsize - (spectral.n_V_reflectors - j)
         /\ VCalls[j].u = spectral.V[spectral.n_V_reflectors - j + 1]
         /\ VCalls[j].before = IF j = 1 THEN VArg ELSE VCalls[j - 1].after
    /\ Len(VCalls) <= spectral.n_V_reflectors
    /\ VDone => Len(VCalls) = spectral.n_V_reflectors
    /\ (lin_pc = "returned" /\ hmethod = "Vmultiply") =>
         lin_ret = IF VCalls = <<>> THEN harg ELSE VCalls[Len(VCalls)].after

\* A 2 x 2 map with two reflectors on each side: forward makes the
\* reflections U[0], U[1], V[1], V[0] with windows 2, 1, 1, 2.
C16_Witness ==
  /\ hmethod = "forward"
  /\ lin_pc = "returned"
  /\ spectral.insize = 2 /\ spectral.outsize = 2
  /\ spectral.n_U_reflectors = 2 /\ spectral.n_V_reflectors = 2
  /\ [j \in 1..Len(refl) |-> <<refl[j].op, refl[j].i, refl[j].k>>]
       = << <<"U", 0, 2>>, <<"U", 1, 1>>, <<"V", 1, 1>>, <<"V", 0, 2>> >>

\* C17 (as claimed): whatever the reflector counts, the defaults included,
\* forward never indexes U or V out of range, and every reflection it makes
\* uses an existing row and a window k with 1 <= k <= feature count.
C17_ForwardInRange ==
  (hmethod \in {"forward", "effective_W"}) =>
    /\ lin_pc # "IndexError"
    /\ \A c \in Range(refl) :
         /\ 1 <= c.k /\ c.k <= Width(c.before)
         /\ c.i < IF c.op = "U" THEN spectral.insize ELSE spectral.outsize

\* What the code does: every reflection that is made is in range, and
\* forward of a batch of insize features raises IndexError exactly when a
\* side has more reflectors than rows.
IndexErrorIffTooManyReflectors ==
  (hmethod \in {"forward", "effective_W"}) =>
    /\ \A c \in Range(refl) :
         /\ 1 <= c.k /\ c.k <= Width(c.before)
         /\ c.i < IF c.op = "U" THEN spectral.insize ELSE spectral.outsize
    /\ (lin_pc \in {"returned", "IndexError"} /\ Width(harg) = spectral.insize) =>
         ((lin_pc = "IndexError") <=>
            (spectral.n_U_reflectors > spectral.insize
               \/ spectral.n_V_reflectors > spectral.outsize))

====
